---- MODULE Spec2Model ----
(***************************************************************************)
(* Vendor identity resolution of the smart receipt analyzer               *)
(* (app/services/database_service.py): VendorMatcher and the vendor part  *)
(* of DatabaseService.                                                     *)
(*                                                                         *)
(* A string is a sequence of one-character strings.  A score is kept as   *)
(* the exact rational num/den (den > 0) of the value the code computes.   *)
(***************************************************************************)
EXTENDS Integers, Sequences, FiniteSets, TLC

(***************************************************************************)
(* Characters                                                              *)
(***************************************************************************)
UpperChars == <<"A","B","C","D","E","F","G","H","I","J","K","L","M",
                "N","O","P","Q","R","S","T","U","V","W","X","Y","Z">>

LowerChars == <<"a","b","c","d","e","f","g","h","i","j","k","l","m",
                "n","o","p","q","r","s","t","u","v","w","x","y","z">>

DigitChars == <<"0","1","2","3","4","5","6","7","8","9">>

\* the characters of the model in code-point order (space . | digits A-Z a-z)
Alphabet == <<" ", ".">> \o DigitChars \o UpperChars \o <<"|">> \o LowerChars

CharOrd(c) == CHOOSE i \in 1..Len(Alphabet) : Alphabet[i] = c

\* str.lower() on one character
LowerChar(c) ==
    IF \E i \in 1..26 : UpperChars[i] = c
    THEN LowerChars[CHOOSE i \in 1..26 : UpperChars[i] = c]
    ELSE c

\* \s of the regular expression, and the separator of str.split()/strip()
IsSpace(c) == c = " "

\* \w of the regular expression
IsWordChar(c) ==
    \/ \E i \in 1..26 : LowerChars[i] = c \/ UpperChars[i] = c
    \/ \E i \in 1..10 : DigitChars[i] = c

Max2(x, y) == IF x >= y THEN x ELSE y

(***************************************************************************)
(* String helpers: lower, strip, re.sub, split, join                       *)
(***************************************************************************)
StrLower(s) == [i \in 1..Len(s) |-> LowerChar(s[i])]

RECURSIVE LStrip(_)
LStrip(s) == IF s # <<>> /\ IsSpace(Head(s)) THEN LStrip(Tail(s)) ELSE s

RECURSIVE RStrip(_)
RStrip(s) ==
    IF s # <<>> /\ IsSpace(s[Len(s)]) THEN RStrip(SubSeq(s, 1, Len(s) - 1)) ELSE s

StrStrip(s) == RStrip(LStrip(s))

\* re.sub(r'[^\w\s]', '', s)
StripPunct(s) == SelectSeq(s, LAMBDA c : IsWordChar(c) \/ IsSpace(c))

\* str.split(): the maximal runs of non-space characters, in order
RECURSIVE SplitFrom(_, _, _)
SplitFrom(s, cur, acc) ==
    IF s = <<>> THEN (IF cur = <<>> THEN acc ELSE Append(acc, cur))
    ELSE IF IsSpace(Head(s))
         THEN SplitFrom(Tail(s), <<>>, IF cur = <<>> THEN acc ELSE Append(acc, cur))
         ELSE SplitFrom(Tail(s), Append(cur, Head(s)), acc)

StrSplit(s) == SplitFrom(s, <<>>, <<>>)

\* ' '.join(words)
RECURSIVE StrJoin(_)
StrJoin(words) ==
    IF words = <<>> THEN <<>>
    ELSE IF Len(words) = 1 THEN words[1]
    ELSE words[1] \o <<" ">> \o StrJoin(Tail(words))

SeqToSet(q) == {q[i] : i \in 1..Len(q)}

(***************************************************************************)
(* VendorMatcher.normalize_vendor_name                                     *)
(***************************************************************************)
stop_words ==
    { <<"t","h","e">>, <<"a","n","d">>, <<"o","r">>, <<"l","t","d">>,
      <<"l","i","m","i","t","e","d">>, <<"i","n","c">>,
      <<"i","n","c","o","r","p","o","r","a","t","e","d">> }

\* the punctuation removed after the stop words instead of before them
normalize_vendor_name_PunctLast(vendor) ==
    LET words == StrSplit(StrStrip(StrLower(vendor)))
    IN  StripPunct(StrJoin(SelectSeq(words, LAMBDA w : w \notin stop_words)))

normalize_vendor_name(vendor) ==
    LET normalized == StripPunct(StrStrip(StrLower(vendor)))
    IN  StrJoin(SelectSeq(StrSplit(normalized), LAMBDA w : w \notin stop_words))

(***************************************************************************)
(* fuzz.token_set_ratio (thefuzz), as called by calculate_similarity_score *)
(***************************************************************************)
\* lexicographic order of strings by code point (sorted() of str)
RECURSIVE StrLess(_, _)
StrLess(a, b) ==
    IF b = <<>> THEN FALSE
    ELSE IF a = <<>> THEN TRUE
    ELSE IF Head(a) = Head(b) THEN StrLess(Tail(a), Tail(b))
    ELSE CharOrd(Head(a)) < CharOrd(Head(b))

RECURSIVE SortedTokens(_)
SortedTokens(S) ==
    IF S = {} THEN <<>>
    ELSE LET m == CHOOSE x \in S : \A y \in S \ {x} : StrLess(x, y)
         IN  <<m>> \o SortedTokens(S \ {m})

SetMax(S) == CHOOSE x \in S : \A y \in S : y <= x

\* one row of the longest-common-subsequence table from the row before it;
\* a row holds columns 0..Len(b) at positions 1..Len(b)+1.  The entry for
\* column j is the best of leaving ch unmatched and of matching ch with an
\* equal character b[k], k <= j
LcsRow(prev, ch, b) ==
    [j \in 1..(Len(b) + 1) |->
        SetMax({prev[j]} \cup {prev[k] + 1 : k \in {k \in 1..(j - 1) : b[k] = ch}})]
        \o <<>>

RECURSIVE LcsFrom(_, _, _, _)
LcsFrom(a, b, i, prev) ==
    IF i > Len(a) THEN prev[Len(b) + 1]
    ELSE LET row == LcsRow(prev, a[i], b)
         IN  IF Len(row) = Len(b) + 1 THEN LcsFrom(a, b, i + 1, row) ELSE 0

LcsLen(a, b) == LcsFrom(a, b, 1, [j \in 1..(Len(b) + 1) |-> 0] \o <<>>)

\* round(n / d) of Python 3: to nearest, ties to even (n >= 0, d > 0)
RoundDiv(n, d) ==
    LET q == n \div d
        r == n % d
    IN  IF 2 * r < d THEN q
        ELSE IF 2 * r > d THEN q + 1
        ELSE IF q % 2 = 0 THEN q ELSE q + 1

\* fuzz.ratio: 100 * 2 * LCS / (len(a) + len(b)), rounded to an integer
FuzzRatio(a, b) ==
    IF Len(a) + Len(b) = 0 THEN 100
    ELSE RoundDiv(200 * LcsLen(a, b), Len(a) + Len(b))

token_set_ratio(s1, s2) ==
    LET tokens1 == SeqToSet(StrSplit(s1))
        tokens2 == SeqToSet(StrSplit(s2))
        sorted_sect == StrJoin(SortedTokens(tokens1 \cap tokens2))
        sorted_1to2 == StrJoin(SortedTokens(tokens1 \ tokens2))
        sorted_2to1 == StrJoin(SortedTokens(tokens2 \ tokens1))
        combined_1to2 == StrStrip(sorted_sect \o <<" ">> \o sorted_1to2)
        combined_2to1 == StrStrip(sorted_sect \o <<" ">> \o sorted_2to1)
    IN  IF tokens1 = {} \/ tokens2 = {} THEN 0
        ELSE IF sorted_sect = <<>> THEN FuzzRatio(combined_1to2, combined_2to1)
        ELSE Max2(FuzzRatio(sorted_sect, combined_1to2),
                  Max2(FuzzRatio(sorted_sect, combined_2to1),
                       FuzzRatio(combined_1to2, combined_2to1)))

(***************************************************************************)
(* VendorMatcher.calculate_similarity_score                                *)
(***************************************************************************)
store_types ==
    { <<"m","a","r","k","e","t">>,
      <<"h","y","p","e","r","m","a","r","k","e","t">>,
      <<"s","u","p","e","r","m","a","r","k","e","t">>,
      <<"s","t","o","r","e">>, <<"s","h","o","p">>, <<"m","a","r","t">> }

WordsOf(name) == SeqToSet(StrSplit(normalize_vendor_name(name)))

\* len(common_words) / max(len(new_words), len(existing_words)) divides by
\* zero when both names normalize to the empty string
ScoreRaises(new_vendor, existing_vendor) ==
    Max2(Cardinality(WordsOf(new_vendor)), Cardinality(WordsOf(existing_vendor))) = 0

\* final_score = token_set_ratio * 0.40 + word_overlap * 0.40 + bonus * 0.20
\* with word_overlap = common / most * 100, as the fraction num / den
calculate_similarity_score(new_vendor, existing_vendor) ==
    LET norm_new == normalize_vendor_name(new_vendor)
        norm_existing == normalize_vendor_name(existing_vendor)
        new_words == SeqToSet(StrSplit(norm_new))
        existing_words == SeqToSet(StrSplit(norm_existing))
        tsr == token_set_ratio(norm_new, norm_existing)
        common == Cardinality(new_words \cap existing_words)
        most == Max2(Cardinality(new_words), Cardinality(existing_words))
        new_words_no_type == new_words \ store_types
        existing_words_no_type == existing_words \ store_types
        is_store_variation ==
            new_words_no_type = existing_words_no_type /\ new_words_no_type # {}
    IN  [num |-> 2 * tsr * most + 200 * common
                 + (IF is_store_variation THEN 100 ELSE 0) * most,
         den |-> 5 * most]

ScoreGT(a, b) == a.num * b.den > b.num * a.den
ScoreGE(a, b) == a.num * b.den >= b.num * a.den
ScoreOf(n) == [num |-> n, den |-> 1]

(***************************************************************************)
(* Inputs and bounds                                                       *)
(***************************************************************************)
Lulu == "Lulu"
LuluMarket == "Lulu Market"
LuluHypermarket == "Lulu Hypermarket"
LuluShop == "Lulu Shop"
TheInc == "The Inc."
EmptyName == ""
AlAinStore == "Al Ain Co Store"
AlAinMarkets == "Al Ain Co Market Hypermarket Supermarket Shop Mart"
Mart == "Mart"
MartShouted == "MART."
Blank == " "
TalabatMart == "Talabat Mart"
TalabtTmart == "TALABT TMART"
LuMarket == "Lu Market"
LuluThenMarketLu == "Lulu |||Market Lu"
LuluSpaced == "Lulu "
MarketLuThenLuMarket == "Market Lu|||Lu Market"

\* names that hold the separator of the cache key, or end where it starts
SeparatorNames == {LuMarket, LuluThenMarketLu, LuluSpaced, MarketLuThenLuMarket}

\* the vendor names the requests of one run carry: one of these sets
NameUniverses ==
    { {Lulu, LuluMarket, LuluHypermarket, LuluShop, TheInc, EmptyName},
      {AlAinStore, AlAinMarkets},
      {Mart, MartShouted, Blank},
      {TalabatMart, TalabtTmart},
      SeparatorNames }

Names == UNION NameUniverses

\* message.content of the judge's reply, when the call returns
ReplyTrue == "true"
ReplyTrueCased == " True"
ReplyFalse == "false"
ReplyOther == "yes."
Replies == {ReplyTrue, ReplyTrueCased, ReplyFalse, ReplyOther}

\* the categories table of a run, rows [id, name] in stored order
Uncategorized == "Uncategorized"
SeededCategories ==
    <<[id |-> 1, name |-> "Food"], [id |-> 2, name |-> Uncategorized]>>
CategoryTables ==
    { SeededCategories,
      <<[id |-> 1, name |-> "food"], [id |-> 2, name |-> "Food"],
        [id |-> 3, name |-> Uncategorized]>>,
      <<[id |-> 1, name |-> "Food"]>> }

\* transaction_data['sector'] of the requests: a stored name, the name in
\* another case, an unknown name, a name with the wildcard of ILIKE
Sectors == {"Food", "FOOD", "Fuel", "F__d"}

\* transaction_id of the requests to remove_transaction and
\* update_transaction
TransactionIds == {1, 2, 3}

\* transaction_data['total'] of the requests: a number, text that is none
Totals == {"12.50", "abc"}

\* the characters of the strings above
Chars(s) ==
    CASE s = "" -> <<>>
      [] s = "Food" -> <<"F","o","o","d">>
      [] s = "food" -> <<"f","o","o","d">>
      [] s = "FOOD" -> <<"F","O","O","D">>
      [] s = "Fuel" -> <<"F","u","e","l">>
      [] s = "F__d" -> <<"F","_","_","d">>
      [] s = "Uncategorized" ->
            <<"U","n","c","a","t","e","g","o","r","i","z","e","d">>
      [] s = "12.50" -> <<"1","2",".","5","0">>
      [] s = "abc" -> <<"a","b","c">>
      [] s = "9.99" -> <<"9",".","9","9">>
      [] s = "Lulu" -> <<"L","u","l","u">>
      [] s = "Lulu Market" -> <<"L","u","l","u"," ","M","a","r","k","e","t">>
      [] s = "Lulu Hypermarket" ->
            <<"L","u","l","u"," ","H","y","p","e","r","m","a","r","k","e","t">>
      [] s = "Lulu Shop" -> <<"L","u","l","u"," ","S","h","o","p">>
      [] s = "The Inc." -> <<"T","h","e"," ","I","n","c",".">>
      [] s = "Al Ain Co Store" ->
            <<"A","l"," ","A","i","n"," ","C","o"," ","S","t","o","r","e">>
      [] s = "Al Ain Co Market Hypermarket Supermarket Shop Mart" ->
            <<"A","l"," ","A","i","n"," ","C","o"," ">>
                \o <<"M","a","r","k","e","t"," ">>
                \o <<"H","y","p","e","r","m","a","r","k","e","t"," ">>
                \o <<"S","u","p","e","r","m","a","r","k","e","t"," ">>
                \o <<"S","h","o","p"," ","M","a","r","t">>
      [] s = "Mart" -> <<"M","a","r","t">>
      [] s = "MART." -> <<"M","A","R","T",".">>
      [] s = " " -> <<" ">>
      [] s = "Lu Market" -> <<"L","u"," ","M","a","r","k","e","t">>
      [] s = "Lulu |||Market Lu" ->
            <<"L","u","l","u"," ","|","|","|">>
                \o <<"M","a","r","k","e","t"," ","L","u">>
      [] s = "Lulu " -> <<"L","u","l","u"," ">>
      [] s = "Market Lu|||Lu Market" ->
            <<"M","a","r","k","e","t"," ","L","u","|","|","|">>
                \o <<"L","u"," ","M","a","r","k","e","t">>
      [] s = "Talabat Mart" ->
            <<"T","a","l","a","b","a","t"," ","M","a","r","t">>
      [] s = "TALABT TMART" ->
            <<"T","A","L","A","B","T"," ","T","M","A","R","T">>
      [] s = "true" -> <<"t","r","u","e">>
      [] s = " True" -> <<" ","T","r","u","e">>
      [] s = "false" -> <<"f","a","l","s","e">>
      [] s = "yes." -> <<"y","e","s",".">>

\* the server processes; each runs one event loop and holds its own
\* module-level db_service, hence its own VendorMatcher
Workers == {"w1", "w2"}

\* requests served in one run, over all workers
MaxCalls == 3

\* calculate_similarity_score over the names of the model, computed once
\* (raises: the call ends in ZeroDivisionError and yields no score)
ScoreTable ==
    [new_vendor \in Names |->
        [existing_vendor \in {n \in Names : \E U \in NameUniverses :
                                                 {new_vendor, n} \subseteq U} |->
            IF ScoreRaises(Chars(new_vendor), Chars(existing_vendor))
            THEN [raises |-> TRUE, score |-> [num |-> 0, den |-> 1]]
            ELSE [raises |-> FALSE,
                  score |-> calculate_similarity_score(Chars(new_vendor),
                                                       Chars(existing_vendor))]]]

(***************************************************************************)
(* State                                                                   *)
(***************************************************************************)
VARIABLES
    request_names,      \* the vendor names the requests of this run carry
    vendors,            \* the vendors table: rows [id, name] in insertion order
    similarity_cache,   \* per worker: VendorMatcher.similarity_cache
    calls,              \* requests started so far
    pc,                 \* per worker: where its current request stands
    op,                 \* per worker: "resolve" (_get_vendor_id) or "match" (match_vendor)
    vendor_name,        \* per worker: the candidate name of the request
    existing_vendors,   \* per worker: the rows the select returned
    best_match,         \* per worker: find_matching_vendor's best_match (NoVendor: None)
    best_score,         \* per worker: find_matching_vendor's best_score
    result,             \* per worker: what the request returned or raised
    judge_log,          \* per worker: the judge calls of the current request
    cache_reads,        \* per worker: cache lookups of the current request
    cache_writes,       \* per worker: cache stores of the current request
    inserted,           \* per worker: the rows the current request inserted
    judged_true,        \* per worker: the pairs the judge has answered true for
    categories,         \* the categories table: rows [id, name]
    transactions,       \* the transactions table, in insertion order
    transaction_data,   \* per worker: the dict handed to store_transaction
    store_pc,           \* per worker: where its store_transaction stands
    category_queries,   \* per worker: the category selects of the request
    store_result,       \* per worker: what store_transaction returned or raised
    normalizing,        \* a name, and normalize_vendor_name applied to it
    http                \* per worker: the route being served and its response

vars == <<request_names, vendors, similarity_cache, calls, pc, op, vendor_name,
          existing_vendors, best_match, best_score, result, judge_log,
          cache_reads, cache_writes, inserted, judged_true, categories,
          transactions, transaction_data, store_pc, category_queries,
          store_result, normalizing, http>>

\* the state of store_transaction and of the tables it alone touches, the
\* name being normalized and the route being served
storeVars == <<categories, transactions, transaction_data, store_pc,
               category_queries, store_result, normalizing, http>>

\* the state of the requests and of the tables
requestVars == <<request_names, vendors, similarity_cache, calls, pc, op,
                 vendor_name, existing_vendors, best_match, best_score, result,
                 judge_log, cache_reads, cache_writes, inserted, judged_true,
                 categories, transactions, transaction_data, store_pc,
                 category_queries, store_result, http>>

NoVendor == [id |-> 0, name |-> ""]
EmptyCache == [k \in {} |-> FALSE]
NoResult == [status |-> "none", id |-> 0, error |-> ""]
Returned(id) == [status |-> "returned", id |-> id, error |-> ""]
Raised(e) == [status |-> "raised", id |-> 0, error |-> e]

NoData == [field \in {} |-> ""]
NoStoreResult ==
    [status |-> "none", error |-> "", missing |-> <<>>, vendor_id |-> 0,
     category_id |-> 0]

\* JSON null, Python's None
NoValue == "null"

\* current_user['id'] of the requests
Users == {"u1", "u2"}

\* no route is being served
NoRequest ==
    [route |-> "none", at |-> "none", user |-> "", transaction_id |-> 0,
     body |-> NoData, current |-> <<>>, updated_fields |-> NoData,
     status |-> 0, detail |-> ""]

\* no request in flight and empty caches
Quiet ==
    /\ similarity_cache = [w \in Workers |-> EmptyCache]
    /\ calls = 0
    /\ pc = [w \in Workers |-> "idle"]
    /\ op = [w \in Workers |-> "none"]
    /\ vendor_name = [w \in Workers |-> ""]
    /\ existing_vendors = [w \in Workers |-> <<>>]
    /\ best_match = [w \in Workers |-> NoVendor]
    /\ best_score = [w \in Workers |-> ScoreOf(0)]
    /\ result = [w \in Workers |-> NoResult]
    /\ judge_log = [w \in Workers |-> <<>>]
    /\ cache_reads = [w \in Workers |-> 0]
    /\ cache_writes = [w \in Workers |-> 0]
    /\ inserted = [w \in Workers |-> <<>>]
    /\ judged_true = [w \in Workers |-> {}]
    /\ transaction_data = [w \in Workers |-> NoData]
    /\ store_pc = [w \in Workers |-> "none"]
    /\ category_queries = [w \in Workers |-> <<>>]
    /\ store_result = [w \in Workers |-> NoStoreResult]
    /\ http = [w \in Workers |-> NoRequest]

\* no request in flight, empty vendors and transactions tables
Idle == vendors = <<>> /\ transactions = <<>> /\ Quiet

NotNormalizing == [input |-> <<>>, once |-> <<>>, twice |-> <<>>, applied |-> 0]

Init ==
    /\ request_names \in NameUniverses
    /\ categories = SeededCategories
    /\ normalizing = NotNormalizing
    /\ Idle

(***************************************************************************)
(* VendorMatcher.find_matching_vendor                                      *)
(***************************************************************************)
DirectThreshold == 80
VerifyFloor == 65

\* the loop over existing_vendors: a strictly greater score replaces the best
RECURSIVE BestFrom(_, _, _, _)
BestFrom(new_vendor, rows, i, best) ==
    IF i > Len(rows) THEN best
    ELSE LET score == ScoreTable[new_vendor][rows[i].name].score
         IN  BestFrom(new_vendor, rows, i + 1,
                      IF ScoreGT(score, best.score)
                      THEN [match |-> rows[i], score |-> score]
                      ELSE best)

\* the loop run over the rows from the last to the first
FindBest_LastSeen(new_vendor, rows) ==
    BestFrom(new_vendor, [i \in 1..Len(rows) |-> rows[Len(rows) + 1 - i]], 1,
             [match |-> NoVendor, score |-> ScoreOf(0)])

FindBest(new_vendor, rows) ==
    BestFrom(new_vendor, rows, 1, [match |-> NoVendor, score |-> ScoreOf(0)])

\* some calculate_similarity_score call of the loop raises ZeroDivisionError
LoopRaises(new_vendor, rows) ==
    \E i \in 1..Len(rows) : ScoreTable[new_vendor][rows[i].name].raises

\* the direct-match test with its threshold on the wrong scale
IsDirectMatch_Scale(score) == ScoreGT(score, ScoreOf(100 * DirectThreshold))

\* if best_score > 80
IsDirectMatch(score) == ScoreGT(score, ScoreOf(DirectThreshold))

\* the verification range with a lower floor
InVerificationRange_Floor60(score) ==
    ScoreGE(score, ScoreOf(60)) /\ ScoreGE(ScoreOf(DirectThreshold), score)

\* the verification range with < for <= at its floor
InVerificationRange_Open(score) ==
    ScoreGT(score, ScoreOf(VerifyFloor)) /\ ScoreGE(ScoreOf(DirectThreshold), score)

\* if 65 <= best_score <= 80
InVerificationRange(score) ==
    ScoreGE(score, ScoreOf(VerifyFloor)) /\ ScoreGE(ScoreOf(DirectThreshold), score)

\* f"{new_vendor}|||{best_match['name']}"
CacheKey(new_vendor, existing_name) ==
    Chars(new_vendor) \o <<"|","|","|">> \o Chars(existing_name)

\* the lookup left out: every lookup misses
CacheHas_Never(cache, key) == FALSE

\* cache_key in self.similarity_cache
CacheHas(cache, key) == key \in DOMAIN cache

\* the store rebuilding the dictionary from the one new entry
CachePut_Reset(cache, key, verdict) == [k \in {key} |-> verdict]

\* self.similarity_cache[cache_key] = is_similar
CachePut(cache, key, verdict) ==
    [k \in DOMAIN cache \cup {key} |-> IF k = key THEN verdict ELSE cache[k]]

(***************************************************************************)
(* VendorMatcher.verify_with_openai                                        *)
(***************************************************************************)
\* what the chat completion call does: raise, or return a message content
JudgeOutcomes ==
    {[raised |-> TRUE, content |-> ""]}
        \cup {[raised |-> FALSE, content |-> r] : r \in Replies}

\* the reply tested with != 'false' for == 'true'
verify_with_openai_NotFalse(outcome) ==
    IF outcome.raised THEN FALSE
    ELSE StrLower(StrStrip(Chars(outcome.content))) # <<"f","a","l","s","e">>

\* response...content.strip().lower() == 'true', and False on any exception
verify_with_openai(outcome) ==
    IF outcome.raised THEN FALSE
    ELSE StrLower(StrStrip(Chars(outcome.content))) = <<"t","r","u","e">>

\* the judge returned, and its answer reads true
AnsweredTrue(outcome) ==
    ~outcome.raised /\ outcome.content \in {ReplyTrue, ReplyTrueCased}

(***************************************************************************)
(* The requests.  A request is a coroutine whose storage and judge calls   *)
(* are blocking calls of synchronous clients, so a worker serves one       *)
(* request at a time; workers interleave at their storage calls.           *)
(***************************************************************************)
NewVendorRow(table, name) == [id |-> Len(table) + 1, name |-> name]

\* an upsert on the last row where the insert was meant
InsertRow_Upsert(table, row) ==
    IF table = <<>> THEN <<row>>
    ELSE [table EXCEPT ![Len(table)] = [id |-> @.id, name |-> row.name]]

\* the table after .insert(new_vendor).execute()
InsertRow(table, row) == Append(table, row)

\* match_vendor creating the vendor as _get_vendor_id does
NoMatch_Create(w) ==
    /\ pc' = [pc EXCEPT ![w] = "insert"]
    /\ UNCHANGED result

\* what a request does once find_matching_vendor found no match:
\* _get_vendor_id goes on to insert, match_vendor returns no vendor
NoMatch(w) ==
    IF op[w] = "resolve"
    THEN /\ pc' = [pc EXCEPT ![w] = "insert"]
         /\ UNCHANGED result
    ELSE /\ pc' = [pc EXCEPT ![w] = "done"]
         /\ result' = [result EXCEPT ![w] = Returned(0)]

\* the request returns the matched vendor
Matched(w, vendor) ==
    /\ pc' = [pc EXCEPT ![w] = "done"]
    /\ result' = [result EXCEPT ![w] = Returned(vendor.id)]

\* DatabaseService._get_vendor_id up to its select
GetVendorId(w, name) ==
    /\ pc[w] = "idle"
    /\ calls < MaxCalls
    /\ calls' = calls + 1
    /\ op' = [op EXCEPT ![w] = "resolve"]
    /\ vendor_name' = [vendor_name EXCEPT ![w] = name]
    /\ IF Chars(name) = <<>>
       THEN /\ pc' = [pc EXCEPT ![w] = "done"]
            /\ result' = [result EXCEPT ![w] = Raised("ValueError")]
       ELSE /\ pc' = [pc EXCEPT ![w] = "select"]
            /\ UNCHANGED result
    /\ UNCHANGED <<request_names, vendors, similarity_cache, existing_vendors, best_match,
                   best_score, judge_log, cache_reads, cache_writes, inserted,
                   judged_true>>

\* match_vendor up to its select
StartMatch(w, name) ==
    /\ pc[w] = "idle"
    /\ op' = [op EXCEPT ![w] = "match"]
    /\ vendor_name' = [vendor_name EXCEPT ![w] = name]
    /\ pc' = [pc EXCEPT ![w] = "select"]
    /\ UNCHANGED <<request_names, vendors, similarity_cache, existing_vendors, best_match,
                   best_score, result, judge_log, cache_reads, cache_writes,
                   inserted, judged_true>>

\* the route match_vendor up to its select
MatchVendor(w, name) ==
    /\ calls < MaxCalls
    /\ calls' = calls + 1
    /\ StartMatch(w, name)
    /\ UNCHANGED storeVars

\* supabase.table('vendors').select('id, name').execute()
SelectVendors(w) ==
    /\ pc[w] = "select"
    /\ existing_vendors' = [existing_vendors EXCEPT ![w] = vendors]
    /\ IF vendors = <<>>
       THEN NoMatch(w)
       ELSE /\ pc' = [pc EXCEPT ![w] = "find"]
            /\ UNCHANGED result
    /\ UNCHANGED <<request_names, vendors, similarity_cache, calls, op, vendor_name, best_match,
                   best_score, judge_log, cache_reads, cache_writes, inserted,
                   judged_true>>
    /\ UNCHANGED storeVars

\* find_matching_vendor up to the judge call: scoring loop, thresholds, cache
FindMatchingVendor(w) ==
    /\ pc[w] = "find"
    /\ IF LoopRaises(vendor_name[w], existing_vendors[w])
       THEN /\ pc' = [pc EXCEPT ![w] = "done"]
            /\ result' = [result EXCEPT ![w] = Raised("ZeroDivisionError")]
            /\ UNCHANGED <<best_match, best_score, cache_reads>>
       ELSE LET best == FindBest(vendor_name[w], existing_vendors[w])
                key == CacheKey(vendor_name[w], best.match.name)
            IN  /\ best_match' = [best_match EXCEPT ![w] = best.match]
                /\ best_score' = [best_score EXCEPT ![w] = best.score]
                /\ IF best.match = NoVendor
                   THEN NoMatch(w) /\ UNCHANGED cache_reads
                   ELSE IF IsDirectMatch(best.score)
                   THEN Matched(w, best.match) /\ UNCHANGED cache_reads
                   ELSE IF InVerificationRange(best.score)
                   THEN /\ cache_reads' = [cache_reads EXCEPT ![w] = @ + 1]
                        /\ IF CacheHas(similarity_cache[w], key)
                           THEN IF similarity_cache[w][key]
                                THEN Matched(w, best.match)
                                ELSE NoMatch(w)
                           ELSE /\ pc' = [pc EXCEPT ![w] = "verify"]
                                /\ UNCHANGED result
                   ELSE NoMatch(w) /\ UNCHANGED cache_reads
    /\ UNCHANGED <<request_names, vendors, similarity_cache, calls, op, vendor_name,
                   existing_vendors, judge_log, cache_writes, inserted, judged_true>>
    /\ UNCHANGED storeVars

\* find_matching_vendor going on to the next vendor of the verification range
\* after a rejected match
VerifyWithOpenAI_TryNext(w, outcome) ==
    /\ pc[w] = "verify"
    /\ LET is_similar == verify_with_openai(outcome)
           key == CacheKey(vendor_name[w], best_match[w].name)
           others == {i \in 1..Len(existing_vendors[w]) :
                        /\ existing_vendors[w][i] # best_match[w]
                        /\ InVerificationRange(
                               ScoreTable[vendor_name[w]][existing_vendors[w][i].name].score)}
       IN  /\ judge_log' = [judge_log EXCEPT ![w] =
                 Append(@, [new_vendor |-> vendor_name[w],
                            existing_vendor |-> best_match[w].name,
                            outcome |-> outcome])]
           /\ similarity_cache' = [similarity_cache EXCEPT ![w] =
                 CachePut(@, key, is_similar)]
           /\ cache_writes' = [cache_writes EXCEPT ![w] = @ + 1]
           /\ judged_true' = [judged_true EXCEPT ![w] =
                 IF AnsweredTrue(outcome)
                 THEN @ \cup {<<vendor_name[w], best_match[w].name>>}
                 ELSE @]
           /\ IF is_similar
              THEN Matched(w, best_match[w]) /\ UNCHANGED best_match
              ELSE IF others # {} /\ Len(judge_log[w]) = 0
              THEN /\ best_match' = [best_match EXCEPT ![w] =
                        existing_vendors[w][CHOOSE i \in others : TRUE]]
                   /\ UNCHANGED <<pc, result>>
              ELSE NoMatch(w) /\ UNCHANGED best_match
    /\ UNCHANGED <<request_names, vendors, calls, op, vendor_name, existing_vendors,
                   best_score, cache_reads, inserted>>
    /\ UNCHANGED storeVars

\* the judge call and the rest of find_matching_vendor
VerifyWithOpenAI(w, outcome) ==
    /\ pc[w] = "verify"
    /\ LET is_similar == verify_with_openai(outcome)
           key == CacheKey(vendor_name[w], best_match[w].name)
       IN  /\ judge_log' = [judge_log EXCEPT ![w] =
                 Append(@, [new_vendor |-> vendor_name[w],
                            existing_vendor |-> best_match[w].name,
                            outcome |-> outcome])]
           /\ similarity_cache' = [similarity_cache EXCEPT ![w] =
                 CachePut(@, key, is_similar)]
           /\ cache_writes' = [cache_writes EXCEPT ![w] = @ + 1]
           /\ judged_true' = [judged_true EXCEPT ![w] =
                 IF AnsweredTrue(outcome)
                 THEN @ \cup {<<vendor_name[w], best_match[w].name>>}
                 ELSE @]
           /\ IF is_similar THEN Matched(w, best_match[w]) ELSE NoMatch(w)
    /\ UNCHANGED <<request_names, vendors, calls, op, vendor_name, existing_vendors, best_match,
                   best_score, cache_reads, inserted>>
    /\ UNCHANGED storeVars

\* supabase.table('vendors').insert(new_vendor).execute(), return the new id
InsertVendor(w) ==
    /\ pc[w] = "insert"
    /\ LET row == NewVendorRow(vendors, vendor_name[w])
       IN  /\ vendors' = InsertRow(vendors, row)
           /\ inserted' = [inserted EXCEPT ![w] = Append(@, row)]
           /\ result' = [result EXCEPT ![w] = Returned(row.id)]
    /\ pc' = [pc EXCEPT ![w] = "done"]
    /\ UNCHANGED <<request_names, similarity_cache, calls, op, vendor_name, existing_vendors,
                   best_match, best_score, judge_log, cache_reads, cache_writes,
                   judged_true>>
    /\ UNCHANGED storeVars

\* the response is sent; the worker takes its next request
Respond(w) ==
    /\ pc[w] = "done"
    /\ store_pc[w] = "none"
    /\ pc' = [pc EXCEPT ![w] = "idle"]
    /\ op' = [op EXCEPT ![w] = "none"]
    /\ vendor_name' = [vendor_name EXCEPT ![w] = ""]
    /\ existing_vendors' = [existing_vendors EXCEPT ![w] = <<>>]
    /\ best_match' = [best_match EXCEPT ![w] = NoVendor]
    /\ best_score' = [best_score EXCEPT ![w] = ScoreOf(0)]
    /\ result' = [result EXCEPT ![w] = NoResult]
    /\ judge_log' = [judge_log EXCEPT ![w] = <<>>]
    /\ cache_reads' = [cache_reads EXCEPT ![w] = 0]
    /\ cache_writes' = [cache_writes EXCEPT ![w] = 0]
    /\ inserted' = [inserted EXCEPT ![w] = <<>>]
    /\ UNCHANGED <<request_names, vendors, similarity_cache, calls, judged_true>>
    /\ UNCHANGED storeVars

\* the requests that resolve a vendor without storing a transaction
Next ==
    \/ \E w \in Workers, name \in request_names :
           GetVendorId(w, name) /\ UNCHANGED storeVars
    \/ \E w \in Workers, name \in request_names : MatchVendor(w, name)
    \/ \E w \in Workers : SelectVendors(w)
    \/ \E w \in Workers : FindMatchingVendor(w)
    \/ \E w \in Workers, outcome \in JudgeOutcomes : VerifyWithOpenAI(w, outcome)
    \/ \E w \in Workers : InsertVendor(w)
    \/ \E w \in Workers : Respond(w)

Spec == Init /\ [][Next]_vars

\* the requests served one after another: a request starts and runs only
\* while no other worker has one in flight
Sequential(w) == \A v \in Workers \ {w} : pc[v] = "idle"

NextSequential ==
    \/ \E w \in Workers, name \in request_names :
           Sequential(w) /\ GetVendorId(w, name) /\ UNCHANGED storeVars
    \/ \E w \in Workers, name \in request_names :
           Sequential(w) /\ MatchVendor(w, name)
    \/ \E w \in Workers : Sequential(w) /\ SelectVendors(w)
    \/ \E w \in Workers : Sequential(w) /\ FindMatchingVendor(w)
    \/ \E w \in Workers, outcome \in JudgeOutcomes :
           Sequential(w) /\ VerifyWithOpenAI(w, outcome)
    \/ \E w \in Workers : Sequential(w) /\ InsertVendor(w)
    \/ \E w \in Workers : Sequential(w) /\ Respond(w)

SpecSequential == Init /\ [][NextSequential]_vars

\* the vendors table after _get_vendor_id('Lu Market') and
\* _get_vendor_id('Market Lu|||Lu Market') on the empty table: the second
\* name scores 56 against the first and is inserted
KeyVendors ==
    <<[id |-> 1, name |-> LuMarket], [id |-> 2, name |-> MarketLuThenLuMarket]>>

\* the requests of Next on that vendors table
InitKeys ==
    /\ request_names = SeparatorNames
    /\ categories = SeededCategories
    /\ normalizing = NotNormalizing
    /\ vendors = KeyVendors
    /\ transactions = <<>>
    /\ Quiet

SpecKeys == InitKeys /\ [][Next]_vars

(***************************************************************************)
(* DatabaseService.get_category_id and DatabaseService.store_transaction   *)
(***************************************************************************)
required_fields == <<"vendor", "date", "total", "sector", "currency">>

\* the missing fields cut to the first of them
MissingFields_First(data) ==
    LET missing == SelectSeq(required_fields, LAMBDA field : field \notin DOMAIN data)
    IN  SubSeq(missing, 1, 1)

\* [field for field in required_fields if field not in transaction_data]
MissingFields(data) ==
    SelectSeq(required_fields, LAMBDA field : field \notin DOMAIN data)

\* name ILIKE pattern: case-insensitive, % matches any run of characters
\* and _ any one character
RECURSIVE ILike(_, _)
ILike(name, pattern) ==
    IF pattern = <<>> THEN name = <<>>
    ELSE IF Head(pattern) = "%"
    THEN ILike(name, Tail(pattern)) \/ (name # <<>> /\ ILike(Tail(name), pattern))
    ELSE /\ name # <<>>
         /\ Head(pattern) = "_" \/ LowerChar(Head(name)) = LowerChar(Head(pattern))
         /\ ILike(Tail(name), Tail(pattern))

\* the three selects of get_category_id, in order, up to the first that
\* returns a row; ValueError when the last returns none
get_category_id(table, category_name) ==
    LET exact == SelectSeq(table, LAMBDA row : row.name = category_name)
        insensitive ==
            SelectSeq(table,
                      LAMBDA row : ILike(Chars(row.name), Chars(category_name)))
        fallback == SelectSeq(table, LAMBDA row : row.name = Uncategorized)
    IN  IF exact # <<>>
        THEN [queries |-> <<"eq">>, raised |-> FALSE, id |-> exact[1].id]
        ELSE IF insensitive # <<>>
        THEN [queries |-> <<"eq", "ilike">>, raised |-> FALSE,
              id |-> insensitive[1].id]
        ELSE IF fallback # <<>>
        THEN [queries |-> <<"eq", "ilike", "eq Uncategorized">>,
              raised |-> FALSE, id |-> fallback[1].id]
        ELSE [queries |-> <<"eq", "ilike", "eq Uncategorized">>,
              raised |-> TRUE, id |-> 0]

\* float(transaction_data['total']) returns: the text is a decimal literal
\* (digits with at most one point); it raises ValueError otherwise
ParsesAsFloat(text) ==
    /\ \E i \in 1..Len(text) : \E d \in 1..10 : DigitChars[d] = text[i]
    /\ \A i \in 1..Len(text) : text[i] = "." \/ \E d \in 1..10 : DigitChars[d] = text[i]
    /\ Cardinality({i \in 1..Len(text) : text[i] = "."}) <= 1

\* the dicts handed to store_transaction
FullData(vendor, total, sector) ==
    [field \in SeqToSet(required_fields) |->
        CASE field = "vendor" -> vendor
          [] field = "date" -> "2024-01-31"
          [] field = "total" -> total
          [] field = "sector" -> sector
          [] field = "currency" -> "AED"]

Without(data, fields) == [field \in DOMAIN data \ fields |-> data[field]]

MissingSets ==
    { {"currency"}, {"vendor", "total"}, {"sector", "date", "currency"},
      SeqToSet(required_fields) }

StorePayloads(names) ==
    {FullData(vendor, "12.50", "Food") : vendor \in names}
        \cup {FullData(Lulu, "12.50", sector) : sector \in Sectors}
        \cup {FullData(Lulu, total, "Food") : total \in Totals}
        \cup {Without(FullData(Lulu, "12.50", "Food"), fields) :
                  fields \in MissingSets}

\* store_transaction calls served in one run, over all workers
MaxStoreCalls == 2

StoreRaised(e, missing, vendor_id) ==
    [status |-> "raised", error |-> e, missing |-> missing,
     vendor_id |-> vendor_id, category_id |-> 0]

\* store_transaction up to the select of _get_vendor_id: the required
\* fields, then _get_vendor_id(transaction_data['vendor'])
StoreTransaction(w, data) ==
    /\ store_pc[w] = "none"
    /\ pc[w] = "idle"
    /\ calls < MaxStoreCalls
    /\ transaction_data' = [transaction_data EXCEPT ![w] = data]
    /\ IF MissingFields(data) # <<>>
       THEN /\ store_pc' = [store_pc EXCEPT ![w] = "done"]
            /\ store_result' = [store_result EXCEPT ![w] =
                   StoreRaised("ValueError", MissingFields(data), 0)]
            /\ calls' = calls + 1
            /\ UNCHANGED <<request_names, vendors, similarity_cache, pc, op,
                           vendor_name, existing_vendors, best_match, best_score,
                           result, judge_log, cache_reads, cache_writes, inserted,
                           judged_true>>
       ELSE /\ store_pc' = [store_pc EXCEPT ![w] = "vendor"]
            /\ GetVendorId(w, data["vendor"])
            /\ UNCHANGED store_result
    /\ UNCHANGED <<categories, transactions, category_queries, normalizing>>

\* _get_vendor_id has returned or raised; get_category_id(sector)
GetCategoryId(w) ==
    /\ store_pc[w] = "vendor"
    /\ pc[w] = "done"
    /\ IF result[w].status = "raised"
       THEN /\ store_pc' = [store_pc EXCEPT ![w] = "done"]
            /\ store_result' = [store_result EXCEPT ![w] =
                   StoreRaised(result[w].error, <<>>, 0)]
            /\ UNCHANGED category_queries
       ELSE LET found == get_category_id(categories, transaction_data[w]["sector"])
            IN  /\ category_queries' = [category_queries EXCEPT ![w] = found.queries]
                /\ IF found.raised
                   THEN /\ store_pc' = [store_pc EXCEPT ![w] = "done"]
                        /\ store_result' = [store_result EXCEPT ![w] =
                               StoreRaised("ValueError", <<>>, result[w].id)]
                   ELSE /\ store_pc' = [store_pc EXCEPT ![w] = "insert"]
                        /\ store_result' = [store_result EXCEPT ![w] =
                               [@ EXCEPT !.vendor_id = result[w].id,
                                         !.category_id = found.id]]
    /\ UNCHANGED <<request_names, vendors, similarity_cache, calls, pc, op,
                   vendor_name, existing_vendors, best_match, best_score, result,
                   judge_log, cache_reads, cache_writes, inserted, judged_true,
                   categories, transactions, transaction_data, normalizing,
                   http>>

\* new_transaction, with the id the table gives it
NewTransaction(id, user_id, vendor_id, category_id, data) ==
    [id |-> id,
     user_id |-> user_id,
     vendor_id |-> vendor_id,
     category_id |-> category_id,
     date |-> data["date"],
     currency |-> data["currency"],
     total_amount |-> data["total"],
     raw_data |-> data,
     receipt_url |-> NoValue,
     created_at |-> "now"]

\* the id the table gives a new row: one that no row has or had, and that
\* no request names
FreshId(table) ==
    1 + SetMax({table[i].id : i \in 1..Len(table)} \cup TransactionIds)

\* new_transaction is built and inserted into the transactions table
InsertTransaction(w) ==
    /\ store_pc[w] = "insert"
    /\ IF ~ParsesAsFloat(Chars(transaction_data[w]["total"]))
       THEN /\ store_result' = [store_result EXCEPT ![w] =
                   StoreRaised("ValueError", <<>>, @.vendor_id)]
            /\ UNCHANGED transactions
       ELSE /\ transactions' = Append(transactions,
                   NewTransaction(FreshId(transactions), http[w].user,
                                  store_result[w].vendor_id,
                                  store_result[w].category_id,
                                  transaction_data[w]))
            /\ store_result' = [store_result EXCEPT ![w] =
                   [@ EXCEPT !.status = "returned"]]
    /\ store_pc' = [store_pc EXCEPT ![w] = "done"]
    /\ UNCHANGED <<request_names, vendors, similarity_cache, calls, pc, op,
                   vendor_name, existing_vendors, best_match, best_score, result,
                   judge_log, cache_reads, cache_writes, inserted, judged_true,
                   categories, transaction_data, category_queries, normalizing,
                   http>>

\* the request ends: the worker is free for its next one
EndRequest(w) ==
    /\ store_pc' = [store_pc EXCEPT ![w] = "none"]
    /\ http' = [http EXCEPT ![w] = NoRequest]
    /\ transaction_data' = [transaction_data EXCEPT ![w] = NoData]
    /\ category_queries' = [category_queries EXCEPT ![w] = <<>>]
    /\ store_result' = [store_result EXCEPT ![w] = NoStoreResult]
    /\ pc' = [pc EXCEPT ![w] = "idle"]
    /\ op' = [op EXCEPT ![w] = "none"]
    /\ vendor_name' = [vendor_name EXCEPT ![w] = ""]
    /\ existing_vendors' = [existing_vendors EXCEPT ![w] = <<>>]
    /\ best_match' = [best_match EXCEPT ![w] = NoVendor]
    /\ best_score' = [best_score EXCEPT ![w] = ScoreOf(0)]
    /\ result' = [result EXCEPT ![w] = NoResult]
    /\ judge_log' = [judge_log EXCEPT ![w] = <<>>]
    /\ cache_reads' = [cache_reads EXCEPT ![w] = 0]
    /\ cache_writes' = [cache_writes EXCEPT ![w] = 0]
    /\ inserted' = [inserted EXCEPT ![w] = <<>>]
    /\ UNCHANGED <<request_names, vendors, similarity_cache, calls, judged_true,
                   categories, transactions, normalizing>>

\* a route starts serving a request of the user
Serving(route, at, user) ==
    [NoRequest EXCEPT !.route = route, !.at = at, !.user = user]

\* the response to the upload that stored, or failed to store, is sent
StoreRespond(w) ==
    /\ http[w].route = "upload"
    /\ store_pc[w] = "done"
    /\ EndRequest(w)

\* the vendor names of the runs that store transactions
StoreNames == {Lulu, LuluMarket}

InitStore ==
    /\ request_names = StoreNames
    /\ categories \in CategoryTables
    /\ normalizing = NotNormalizing
    /\ Idle

NextStore ==
    \/ \E w \in Workers, data \in StorePayloads(request_names) :
           /\ StoreTransaction(w, data)
           /\ http' = [http EXCEPT ![w] = Serving("upload", "store", "u1")]
    \/ \E w \in Workers : SelectVendors(w)
    \/ \E w \in Workers : FindMatchingVendor(w)
    \/ \E w \in Workers, outcome \in JudgeOutcomes : VerifyWithOpenAI(w, outcome)
    \/ \E w \in Workers : InsertVendor(w)
    \/ \E w \in Workers : GetCategoryId(w)
    \/ \E w \in Workers : InsertTransaction(w)
    \/ \E w \in Workers : StoreRespond(w)

SpecStore == InitStore /\ [][NextStore]_vars

(***************************************************************************)
(* The routes create_transaction, get_user_transactions,                   *)
(* remove_transaction and update_transaction                               *)
(***************************************************************************)
\* requests the routes serve in one run, over all workers
MaxRouteCalls == 2

\* the tables after store_transaction for u2 with vendor 'Lulu' and for u1
\* with vendor 'The Inc.', both with sector 'Food'
RouteVendors == <<[id |-> 1, name |-> Lulu], [id |-> 2, name |-> TheInc]>>

RouteTransactions ==
    <<NewTransaction(1, "u2", 1, 1, FullData(Lulu, "12.50", "Food")),
      NewTransaction(2, "u1", 2, 1, FullData(TheInc, "12.50", "Food"))>>

\* transaction_data of the requests to create_transaction
CreatePayloads ==
    { FullData(Lulu, "12.50", "Food"),
      FullData(Lulu, "abc", "Food"),
      FullData(TheInc, "12.50", "Food"),
      FullData(LuluMarket, "12.50", "Food"),
      Without(FullData(Lulu, "12.50", "Food"), {"currency"}),
      Without(FullData(Lulu, "12.50", "Food"), {"vendor", "total"}) }

\* the dict with the one more key
With(data, field, value) ==
    [f \in DOMAIN data \cup {field} |-> IF f = field THEN value ELSE data[f]]

\* update_data of the requests to update_transaction
UpdatePayloads ==
    { With(NoData, "vendor", Lulu),
      With(NoData, "vendor", LuluMarket),
      With(NoData, "vendor", TheInc),
      With(With(NoData, "vendor", Lulu), "vendor_id", 2),
      With(With(NoData, "date", "2024-02-01"), "currency", NoValue),
      With(With(NoData, "total_amount", "9.99"), "user_id", "u2"),
      With(NoData, "total_amount", "abc"),
      NoData }

\* raise HTTPException(status_code=..., detail=...)
HTTPException(status, detail) ==
    [class |-> "HTTPException", status |-> status, detail |-> detail]

\* the handlers of create_transaction's try: except ValueError, then
\* except Exception
create_transaction_except(e) ==
    IF e.class = "ValueError"
    THEN HTTPException(400, e.detail)
    ELSE HTTPException(500, "Failed to create transaction")

\* the handlers of get_user_transactions: the one of the inner try raises
\* by str(e) of the failed storage call, inside the outer try, whose
\* except Exception catches what it raised
get_user_transactions_except(error_msg) ==
    LET inner == IF error_msg = "42501"
                 THEN HTTPException(403, "Permission denied")
                 ELSE IF error_msg = "23503"
                 THEN HTTPException(404, "Referenced record does not exist")
                 ELSE HTTPException(500, "Error fetching transactions")
        outer(e) == HTTPException(500, "Error fetching transactions")
    IN  outer(inner)

\* .eq('id', transaction_id) without the test of the owner
OwnedRows_AnyUser(table, transaction_id, user_id) ==
    SelectSeq(table, LAMBDA row : row.id = transaction_id)

\* table('transactions').select('*').eq('id', transaction_id)
\*     .eq('user_id', current_user['id'])
OwnedRows(table, transaction_id, user_id) ==
    SelectSeq(table, LAMBDA row : row.id = transaction_id /\ row.user_id = user_id)

\* the columns of update_transaction with user_id among them
allowed_fields_AndOwner ==
    {"vendor_id", "date", "currency", "category_id", "total_amount", "user_id"}

allowed_fields == {"vendor_id", "date", "currency", "category_id", "total_amount"}

\* update_data[field] is not None; the ids of the requests are numbers,
\* never null
NotNone(update_data, field) ==
    field \in {"vendor_id", "category_id"} \/ update_data[field] # NoValue

\* updated_fields: the allowed fields that are in update_data and not None
UpdatedFields(update_data) ==
    [field \in {f \in allowed_fields \cap DOMAIN update_data :
                    NotNone(update_data, f)} |-> update_data[field]]

\* the route returns or raises: status and message or detail of the response
Responds(w, status, detail) ==
    http' = [http EXCEPT ![w].at = "done", ![w].status = status,
                         ![w].detail = detail]

\* what a route leaves alone when it touches neither the vendor resolution
\* nor store_transaction
RouteFrame ==
    UNCHANGED <<request_names, vendors, similarity_cache, pc, op, vendor_name,
                existing_vendors, best_match, best_score, result, judge_log,
                cache_reads, cache_writes, inserted, judged_true, categories,
                transaction_data, store_pc, category_queries, store_result,
                normalizing>>

\* create_transaction up to the select of _get_vendor_id: the required
\* fields, then store_transaction
CreateTransaction(w, user, data) ==
    /\ http[w].route = "none"
    /\ IF MissingFields(data) # <<>>
       THEN /\ pc[w] = "idle"
            /\ store_pc[w] = "none"
            /\ calls < MaxRouteCalls
            /\ calls' = calls + 1
            /\ LET raised == create_transaction_except(
                                 HTTPException(400, "Missing required fields"))
               IN  http' = [http EXCEPT ![w] =
                       [Serving("create", "done", user) EXCEPT
                           !.body = data, !.status = raised.status,
                           !.detail = raised.detail]]
            /\ UNCHANGED transactions
            /\ RouteFrame
       ELSE /\ StoreTransaction(w, data)
            /\ http' = [http EXCEPT ![w] =
                   [Serving("create", "store", user) EXCEPT !.body = data]]

\* store_transaction has returned or raised: create_transaction responds
CreateRespond(w) ==
    /\ http[w].route = "create"
    /\ http[w].at = "store"
    /\ store_pc[w] = "done"
    /\ IF store_result[w].status = "raised"
       THEN LET raised == create_transaction_except(
                              [class |-> store_result[w].error,
                               detail |-> store_result[w].error])
            IN  Responds(w, raised.status, raised.detail)
       ELSE Responds(w, 200, "Transaction created successfully")
    /\ UNCHANGED <<calls, transactions>>
    /\ RouteFrame

\* get_user_transactions: the selects return the user's rows or fail
GetUserTransactions(w, user, error_msg) ==
    /\ http[w].route = "none"
    /\ pc[w] = "idle"
    /\ store_pc[w] = "none"
    /\ calls < MaxRouteCalls
    /\ calls' = calls + 1
    /\ IF error_msg = "none"
       THEN http' = [http EXCEPT ![w] =
                [Serving("list", "done", user) EXCEPT
                    !.status = 200,
                    !.current = SelectSeq(transactions,
                                          LAMBDA row : row.user_id = user)]]
       ELSE LET raised == get_user_transactions_except(error_msg)
            IN  http' = [http EXCEPT ![w] =
                    [Serving("list", "done", user) EXCEPT
                        !.status = raised.status, !.detail = error_msg]]
    /\ UNCHANGED transactions
    /\ RouteFrame

\* remove_transaction up to its delete: the ownership check
RemoveTransaction(w, user, transaction_id) ==
    /\ http[w].route = "none"
    /\ pc[w] = "idle"
    /\ store_pc[w] = "none"
    /\ calls < MaxRouteCalls
    /\ calls' = calls + 1
    /\ LET data == OwnedRows(transactions, transaction_id, user)
           request == [Serving("remove", "delete", user) EXCEPT
                          !.transaction_id = transaction_id, !.current = data]
       IN  IF data = <<>>
           THEN http' = [http EXCEPT ![w] =
                    [request EXCEPT
                        !.at = "done", !.status = 200,
                        !.detail = "Transaction not found or already deleted"]]
           ELSE http' = [http EXCEPT ![w] = request]
    /\ UNCHANGED transactions
    /\ RouteFrame

\* remove_transaction's delete and its response
DeleteTransaction(w) ==
    /\ http[w].route = "remove"
    /\ http[w].at = "delete"
    /\ transactions' = SelectSeq(transactions,
                               LAMBDA row : row.id # http[w].transaction_id)
    /\ IF transactions' = transactions
       THEN Responds(w, 500, "Failed to delete transaction")
       ELSE Responds(w, 200, "Transaction deleted successfully")
    /\ UNCHANGED calls
    /\ RouteFrame

\* update_transaction up to the select of match_vendor, or up to its update
\* when no vendor name is given: the ownership check
UpdateTransaction(w, user, transaction_id, update_data) ==
    /\ http[w].route = "none"
    /\ pc[w] = "idle"
    /\ store_pc[w] = "none"
    /\ calls < MaxRouteCalls
    /\ calls' = calls + 1
    /\ LET data == OwnedRows(transactions, transaction_id, user)
           request == [Serving("update", "write", user) EXCEPT
                          !.transaction_id = transaction_id,
                          !.body = update_data, !.current = data]
       IN  IF data = <<>>
           THEN /\ http' = [http EXCEPT ![w] =
                       [request EXCEPT
                           !.at = "done", !.status = 404,
                           !.detail = "Transaction not found or doesn't belong to user"]]
                /\ RouteFrame
           ELSE IF "vendor" \in DOMAIN update_data /\ NotNone(update_data, "vendor")
           THEN /\ http' = [http EXCEPT ![w] = [request EXCEPT !.at = "match"]]
                /\ StartMatch(w, update_data["vendor"])
                /\ UNCHANGED <<categories, transaction_data, store_pc,
                               category_queries, store_result, normalizing>>
           ELSE /\ http' = [http EXCEPT ![w] = request]
                /\ RouteFrame
    /\ UNCHANGED transactions

\* match_vendor has returned or raised, or was not called: the fields to
\* update, the update and the response
WriteTransaction(w) ==
    /\ http[w].route = "update"
    /\ \/ http[w].at = "write"
       \/ http[w].at = "match" /\ pc[w] = "done"
    /\ LET called == http[w].at = "match"
           update_data ==
               IF called /\ result[w].status = "returned" /\ result[w].id # 0
               THEN With(http[w].body, "vendor_id", result[w].id)
               ELSE http[w].body
           updated_fields == UpdatedFields(update_data)
           \* table('transactions').update(updated_fields)
           \*     .eq('id', transaction_id)
           updated ==
               [i \in 1..Len(transactions) |->
                   IF transactions[i].id = http[w].transaction_id
                   THEN [column \in DOMAIN transactions[i] |->
                            IF column \in DOMAIN updated_fields
                            THEN updated_fields[column]
                            ELSE transactions[i][column]]
                   ELSE transactions[i]]
       IN  IF called /\ result[w].status = "raised"
           THEN /\ Responds(w, 500, "Failed to match vendor")
                /\ UNCHANGED transactions
           ELSE IF /\ "total_amount" \in DOMAIN updated_fields
                   /\ ~ParsesAsFloat(Chars(updated_fields["total_amount"]))
           THEN /\ Responds(w, 500, "Failed to update transaction")
                /\ UNCHANGED transactions
           ELSE IF DOMAIN updated_fields = {}
           THEN /\ Responds(w, 200, "No fields to update")
                /\ UNCHANGED transactions
           ELSE IF \E i \in 1..Len(transactions) :
                       transactions[i].id = http[w].transaction_id
           THEN /\ http' = [http EXCEPT
                       ![w].at = "done", ![w].status = 200,
                       ![w].detail = "Transaction updated successfully",
                       ![w].updated_fields = updated_fields]
                /\ transactions' = updated
           ELSE /\ Responds(w, 500, "Failed to update transaction: No data returned")
                /\ UNCHANGED transactions
    /\ UNCHANGED calls
    /\ RouteFrame

\* the response of the route is sent
RouteRespond(w) ==
    /\ http[w].route \in {"create", "list", "remove", "update"}
    /\ http[w].at = "done"
    /\ EndRequest(w)

InitRoutes ==
    /\ request_names = {Lulu, LuluMarket, TheInc}
    /\ categories = SeededCategories
    /\ normalizing = NotNormalizing
    /\ vendors = RouteVendors
    /\ transactions = RouteTransactions
    /\ Quiet

NextRoutes ==
    \/ \E w \in Workers, user \in Users, data \in CreatePayloads :
           CreateTransaction(w, user, data)
    \/ \E w \in Workers : CreateRespond(w)
    \/ \E w \in Workers, user \in Users, error_msg \in {"none", "42501", "23503", "08006"} :
           GetUserTransactions(w, user, error_msg)
    \/ \E w \in Workers, user \in Users, transaction_id \in TransactionIds :
           RemoveTransaction(w, user, transaction_id)
    \/ \E w \in Workers : DeleteTransaction(w)
    \/ \E w \in Workers, user \in Users, transaction_id \in TransactionIds,
          update_data \in UpdatePayloads :
           UpdateTransaction(w, user, transaction_id, update_data)
    \/ \E w \in Workers : WriteTransaction(w)
    \/ \E w \in Workers : SelectVendors(w)
    \/ \E w \in Workers : FindMatchingVendor(w)
    \/ \E w \in Workers, outcome \in JudgeOutcomes : VerifyWithOpenAI(w, outcome)
    \/ \E w \in Workers : InsertVendor(w)
    \/ \E w \in Workers : GetCategoryId(w)
    \/ \E w \in Workers : InsertTransaction(w)
    \/ \E w \in Workers : RouteRespond(w)

SpecRoutes == InitRoutes /\ [][NextRoutes]_vars

(***************************************************************************)
(* normalize_vendor_name applied to a name, and again to its result        *)
(***************************************************************************)
\* the characters of the names that are normalized: letters that spell the
\* stop word 'or' in either case, another letter, space and punctuation
NormalizeChars == {"o", "R", "a", " ", "."}

\* the longest name that is normalized
MaxNameLen == 5

NormalizeInputs == UNION {[1..n -> NormalizeChars] : n \in 0..MaxNameLen}

InitNormalize ==
    /\ request_names = StoreNames
    /\ categories = SeededCategories
    /\ normalizing \in {[NotNormalizing EXCEPT !.input = s] : s \in NormalizeInputs}
    /\ Idle

\* result = normalize_vendor_name(vendor)
Normalize ==
    /\ normalizing.applied = 0
    /\ normalizing' = [normalizing EXCEPT
           !.once = normalize_vendor_name(normalizing.input), !.applied = 1]
    /\ UNCHANGED requestVars

\* normalize_vendor_name(result)
NormalizeAgain ==
    /\ normalizing.applied = 1
    /\ normalizing' = [normalizing EXCEPT
           !.twice = normalize_vendor_name(normalizing.once), !.applied = 2]
    /\ UNCHANGED requestVars

NextNormalize == Normalize \/ NormalizeAgain

SpecNormalize == InitNormalize /\ [][NextNormalize]_vars

(***************************************************************************)
(* Properties                                                              *)
(***************************************************************************)
\* the scoring loop of worker w's request has run to its end
Found(w) ==
    /\ pc[w] \in {"verify", "insert", "done"}
    /\ existing_vendors[w] # <<>>
    /\ result[w].status # "raised"

HasBest(w) == Found(w) /\ best_match[w] # NoVendor

ScoreAbove80(w) == best_score[w].num > 80 * best_score[w].den
ScoreAtMost80(w) == best_score[w].num <= 80 * best_score[w].den
ScoreAtLeast65(w) == best_score[w].num >= 65 * best_score[w].den
ScoreBelow65(w) == best_score[w].num < 65 * best_score[w].den
ScoreExactly80(w) == best_score[w].num = 80 * best_score[w].den

RowScore(w, i) == ScoreTable[vendor_name[w]][existing_vendors[w][i].name].score

\* best_match is a row the select returned, best_score is its score, and no
\* row scores higher
IsTopScoring(w) ==
    \E i \in 1..Len(existing_vendors[w]) :
        /\ existing_vendors[w][i] = best_match[w]
        /\ RowScore(w, i).num * best_score[w].den
               = best_score[w].num * RowScore(w, i).den
        /\ \A j \in 1..Len(existing_vendors[w]) :
               RowScore(w, j).num * best_score[w].den
                   <= best_score[w].num * RowScore(w, j).den

\* the request returned the existing vendor best_match and inserted nothing
ReturnedBest(w) ==
    /\ pc[w] = "done"
    /\ result[w] = [status |-> "returned", id |-> best_match[w].id, error |-> ""]
    /\ inserted[w] = <<>>

\* _get_vendor_id inserted exactly one row, named by the raw candidate, with an
\* id no row of its select had, and returned that id
CreatedNew(w) ==
    /\ pc[w] = "done"
    /\ Len(inserted[w]) = 1
    /\ inserted[w][1].name = vendor_name[w]
    /\ \E i \in 1..Len(vendors) : vendors[i] = inserted[w][1]
    /\ \A i \in 1..Len(existing_vendors[w]) :
           existing_vendors[w][i].id # inserted[w][1].id
    /\ result[w] = [status |-> "returned", id |-> inserted[w][1].id, error |-> ""]

\* the request is on the no-match path: _get_vendor_id is about to insert or
\* has created the vendor, match_vendor has answered that nothing matched
TookNoMatchPath(w) ==
    IF op[w] = "resolve"
    THEN pc[w] = "insert" \/ CreatedNew(w)
    ELSE /\ pc[w] = "done"
         /\ result[w] = [status |-> "returned", id |-> 0, error |-> ""]
         /\ inserted[w] = <<>>

\* C1: whenever the best score over the known vendors is strictly greater
\* than 80, the request returns that best-scoring existing vendor, the judge
\* is never invoked, the arbitration cache is neither read nor written, and
\* no vendor row is inserted.
C1_DirectMatch ==
    \A w \in Workers :
        (HasBest(w) /\ ScoreAbove80(w)) =>
            /\ IsTopScoring(w)
            /\ ReturnedBest(w)
            /\ judge_log[w] = <<>>
            /\ cache_reads[w] = 0
            /\ cache_writes[w] = 0

C1_Witness ==
    \E w \in Workers :
        /\ op[w] = "resolve"
        /\ HasBest(w) /\ ScoreAbove80(w)
        /\ Len(existing_vendors[w]) >= 2
        /\ ReturnedBest(w)

\* the pair of worker w's request and the verdict the cache holds for it
PairKey(w) == Chars(vendor_name[w]) \o <<"|","|","|">> \o Chars(best_match[w].name)
HasVerdict(w) == PairKey(w) \in DOMAIN similarity_cache[w]
Verdict(w) == similarity_cache[w][PairKey(w)]

\* C2: for every best score s with 65 <= s <= 80 (a score of exactly 80 is
\* not a direct match) the arbitration verdict for the pair (candidate, best
\* vendor) decides the resolution: the verdict is the judge's answer when the
\* judge was asked in this request, the best vendor is returned if and only if
\* the verdict is true, and otherwise a new vendor is created.
C2_BandDecidedByVerdict ==
    \A w \in Workers :
        (HasBest(w) /\ ScoreAtLeast65(w) /\ ScoreAtMost80(w)) =>
            /\ IsTopScoring(w)
            /\ cache_reads[w] = 1
            /\ pc[w] = "verify" => (judge_log[w] = <<>> /\ ~HasVerdict(w))
            /\ pc[w] # "verify" =>
                /\ HasVerdict(w)
                /\ judge_log[w] # <<>> =>
                       /\ judge_log[w][1].new_vendor = vendor_name[w]
                       /\ judge_log[w][1].existing_vendor = best_match[w].name
                       /\ Verdict(w) = AnsweredTrue(judge_log[w][1].outcome)
                /\ Verdict(w) => ReturnedBest(w)
                /\ ~Verdict(w) => TookNoMatchPath(w)

C2_Witness ==
    \E w \in Workers :
        /\ op[w] = "resolve"
        /\ HasBest(w) /\ ScoreExactly80(w)
        /\ judge_log[w] # <<>>
        /\ ~Verdict(w)
        /\ CreatedNew(w)

\* C3: when the known-vendor set is empty or the best score is below 65,
\* _get_vendor_id makes no judge call and no cache read or write, inserts
\* exactly one new vendor whose name is the raw candidate string, and returns
\* the id of that new vendor.
C3_NoMatchCreates ==
    \A w \in Workers :
        ( /\ op[w] = "resolve"
          /\ pc[w] \in {"insert", "done"}
          /\ result[w].status # "raised"
          /\ existing_vendors[w] = <<>> \/ ScoreBelow65(w) ) =>
            /\ judge_log[w] = <<>>
            /\ cache_reads[w] = 0
            /\ cache_writes[w] = 0
            /\ pc[w] = "done" => CreatedNew(w)

C3_Witness ==
    \E w \in Workers :
        /\ op[w] = "resolve"
        /\ HasBest(w) /\ ScoreBelow65(w)
        /\ IsTopScoring(w)
        /\ CreatedNew(w)
        /\ Chars(inserted[w][1].name) # normalize_vendor_name(Chars(inserted[w][1].name))

\* the judge's answer to the one call of worker w's request
JudgeOutcome(w) == judge_log[w][1].outcome

\* the judge call failed: it raised, or its reply reads neither true nor false
JudgeFailed(outcome) ==
    \/ outcome.raised
    \/ outcome.content \notin {ReplyTrue, ReplyTrueCased, ReplyFalse}

\* C4: arbitration failures are not cached: when the judge call of a request
\* raises or returns non-boolean text, the arbitration cache holds no entry
\* for that (candidate, existing) pair afterwards, so that a later resolution
\* of the same pair asks the judge again.
C4_FailuresNotCached ==
    \A w \in Workers :
        (judge_log[w] # <<>> /\ JudgeFailed(JudgeOutcome(w))) => ~HasVerdict(w)

\* C5 as stated: an exception, or a reply that is not exactly 'true', is
\* treated as verdict false: the request does not fail, does not return the
\* arbitrated vendor and takes the no-match path.
C5_NotExactlyTrueIsFalse ==
    \A w \in Workers :
        ( /\ judge_log[w] # <<>>
          /\ JudgeOutcome(w).raised \/ JudgeOutcome(w).content # ReplyTrue ) =>
            /\ result[w].status # "raised"
            /\ TookNoMatchPath(w)

\* C5 as amended: an exception, or a reply that is not 'true' once trimmed
\* and lower-cased, is treated as verdict false: the request does not fail,
\* does not return the arbitrated vendor and takes the no-match path
\* (_get_vendor_id goes on to insert a new vendor).
C5_FailureIsFalse ==
    \A w \in Workers :
        (judge_log[w] # <<>> /\ ~AnsweredTrue(JudgeOutcome(w))) =>
            /\ result[w].status # "raised"
            /\ ~ReturnedBest(w)
            /\ TookNoMatchPath(w)

C5_Witness ==
    \E w \in Workers :
        /\ op[w] = "resolve"
        /\ judge_log[w] # <<>>
        /\ JudgeOutcome(w).raised
        /\ CreatedNew(w)

\* the request of worker w found the verdict of its pair in the cache
CacheHit(w) ==
    /\ HasBest(w) /\ ScoreAtLeast65(w) /\ ScoreAtMost80(w)
    /\ HasVerdict(w)
    /\ cache_writes[w] = 0

\* C6: on an arbitration-cache hit for the pair (candidate, best vendor) the
\* cached verdict decides the request and the judge is not invoked; after a
\* judge call that answered true, every later request of the same worker for
\* the same pair in the verification range returns the vendor without a
\* judge call.
C6_CacheHitDecides ==
    \A w \in Workers :
        /\ CacheHit(w) =>
            /\ pc[w] # "verify"
            /\ judge_log[w] = <<>>
            /\ Verdict(w) => ReturnedBest(w)
            /\ ~Verdict(w) => TookNoMatchPath(w)
        /\ ( /\ HasBest(w) /\ ScoreAtLeast65(w) /\ ScoreAtMost80(w)
             /\ <<vendor_name[w], best_match[w].name>> \in judged_true[w]
             /\ cache_writes[w] = 0 ) =>
            /\ judge_log[w] = <<>>
            /\ ReturnedBest(w)

C6_Witness ==
    \E w \in Workers :
        /\ op[w] = "resolve"
        /\ CacheHit(w)
        /\ <<vendor_name[w], best_match[w].name>> \in judged_true[w]
        /\ judge_log[w] = <<>>
        /\ ReturnedBest(w)

\* C7: the arbitration cache of a VendorMatcher is append-only: a verdict
\* stored for a key is never removed and never changes its value, whatever
\* the workers do in between.
C7_CacheAppendOnly ==
    [][\A w \in Workers : \A k \in DOMAIN similarity_cache[w] :
           /\ k \in DOMAIN similarity_cache'[w]
           /\ similarity_cache'[w][k] = similarity_cache[w][k]]_vars

C7_Witness ==
    \E w \in Workers :
        /\ Cardinality(DOMAIN similarity_cache[w]) >= 2
        /\ cache_writes[w] = 1
        /\ \E v \in Workers \ {w} : pc[v] # "idle"

\* worker w's _get_vendor_id has inserted its vendor and not yet responded
Inserting(w) == op[w] = "resolve" /\ pc[w] = "done" /\ inserted[w] # <<>>

\* C8: two concurrent resolutions of the same candidate name can both read
\* the vendor list before either inserts, both decide that nothing matches
\* and each insert a row: whenever both have inserted without having read
\* the other's row, the table holds both rows, two rows of that one name.
C8_RaceLeavesTwoRows ==
    \A w \in Workers : \A v \in Workers \ {w} :
        ( /\ Inserting(w) /\ Inserting(v)
          /\ vendor_name[w] = vendor_name[v]
          /\ \A i \in 1..Len(existing_vendors[w]) :
                 existing_vendors[w][i] # inserted[v][1]
          /\ \A i \in 1..Len(existing_vendors[v]) :
                 existing_vendors[v][i] # inserted[w][1] ) =>
            /\ inserted[w][1].id # inserted[v][1].id
            /\ \E i \in 1..Len(vendors) : vendors[i] = inserted[w][1]
            /\ \E i \in 1..Len(vendors) : vendors[i] = inserted[v][1]
            /\ Cardinality({i \in 1..Len(vendors) :
                               vendors[i].name = vendor_name[w]}) >= 2

C8_Witness ==
    \E w \in Workers : \E v \in Workers \ {w} :
        /\ vendor_name[w] = vendor_name[v]
        /\ CreatedNew(w) /\ CreatedNew(v)
        /\ existing_vendors[w] = <<>> /\ existing_vendors[v] = <<>>
        /\ Cardinality({i \in 1..Len(vendors) :
                           vendors[i].name = vendor_name[w]}) = 2

\* C9: a request changes the vendor table only by inserting: a step leaves
\* the table as it is or appends one row, the row of a _get_vendor_id that
\* found no match, named by its candidate; no stored row is modified or
\* deleted; a request inserts at most one row, none when it returns a matched
\* vendor and exactly one when it returns a created one.
C9_OnlyInserts ==
    [][ /\ \/ vendors' = vendors
           \/ /\ Len(vendors') = Len(vendors) + 1
              /\ SubSeq(vendors', 1, Len(vendors)) = vendors
              /\ \E w \in Workers :
                     /\ op[w] = "resolve"
                     /\ pc[w] = "insert"
                     /\ vendors'[Len(vendors')].name = vendor_name[w]
                     /\ inserted'[w] = Append(inserted[w], vendors'[Len(vendors')])
        /\ \A w \in Workers :
               /\ Len(inserted'[w]) <= 1
               /\ \A k \in 1..Len(inserted'[w]) :
                      \E i \in 1..Len(vendors') : vendors'[i] = inserted'[w][k]
               /\ (pc'[w] = "done" /\ result'[w].status = "returned") =>
                      IF best_match'[w] # NoVendor
                         /\ result'[w].id = best_match'[w].id
                      THEN inserted'[w] = <<>>
                      ELSE IF op'[w] = "resolve"
                      THEN Len(inserted'[w]) = 1 /\ result'[w].id = inserted'[w][1].id
                      ELSE inserted'[w] = <<>> ]_vars

C9_Witness ==
    \E w \in Workers : \E v \in Workers \ {w} :
        /\ CreatedNew(w)
        /\ existing_vendors[w] # <<>>
        /\ SubSeq(vendors, 1, Len(existing_vendors[w])) = existing_vendors[w]
        /\ HasBest(v) /\ ReturnedBest(v)

\* C10: within one request the judge is invoked at most once, and only for
\* the pair of the candidate and the single top-scoring vendor; after a
\* verdict false no other vendor is arbitrated and the request takes the
\* no-match path (_get_vendor_id creates a new vendor), even when another
\* vendor also scores within [65, 80].
C10_SingleArbitration ==
    \A w \in Workers :
        /\ Len(judge_log[w]) <= 1
        /\ judge_log[w] # <<>> =>
            /\ HasBest(w) /\ IsTopScoring(w)
            /\ judge_log[w][1].new_vendor = vendor_name[w]
            /\ judge_log[w][1].existing_vendor = best_match[w].name
            /\ ~AnsweredTrue(JudgeOutcome(w)) => TookNoMatchPath(w)

C10_Witness ==
    \E w \in Workers :
        /\ op[w] = "resolve"
        /\ Len(judge_log[w]) = 1
        /\ ~AnsweredTrue(JudgeOutcome(w))
        /\ CreatedNew(w)
        /\ \E i \in 1..Len(existing_vendors[w]) :
               /\ existing_vendors[w][i] # best_match[w]
               /\ RowScore(w, i).num >= 65 * RowScore(w, i).den
               /\ RowScore(w, i).num * best_score[w].den
                      < best_score[w].num * RowScore(w, i).den

\* the position of worker w's best_match in the rows its select returned
BestIndex(w) ==
    CHOOSE i \in 1..Len(existing_vendors[w]) : existing_vendors[w][i] = best_match[w]

\* rows i and j of worker w's select score the same against its candidate
SameScore(w, i, j) ==
    RowScore(w, i).num * RowScore(w, j).den = RowScore(w, j).num * RowScore(w, i).den

\* C11: the best candidate is chosen with first-seen-wins tie-breaking: of
\* the rows that share the maximal score, the one earliest in the sequence
\* handed to find_matching_vendor is best_match, the vendor that is returned
\* or arbitrated.
C11_FirstSeenWins ==
    \A w \in Workers :
        HasBest(w) =>
            /\ IsTopScoring(w)
            /\ \A j \in 1..Len(existing_vendors[w]) :
                   SameScore(w, j, BestIndex(w)) => BestIndex(w) <= j
            /\ \A k \in 1..Len(judge_log[w]) :
                   judge_log[w][k].existing_vendor = best_match[w].name
            /\ (pc[w] = "done" /\ result[w].status = "returned"
                    /\ inserted[w] = <<>> /\ result[w].id # 0) =>
                   result[w].id = best_match[w].id

C11_Witness ==
    \E w \in Workers :
        /\ HasBest(w)
        /\ BestIndex(w) = 1
        /\ \E j \in 2..Len(existing_vendors[w]) :
               /\ SameScore(w, j, 1)
               /\ existing_vendors[w][j].name # best_match[w].name
        /\ Len(judge_log[w]) = 1
        /\ ReturnedBest(w)

\* worker w's request has decided: it returns an existing vendor, or it is
\* on the no-match path (create new)
Decided(w) ==
    /\ pc[w] \in {"insert", "done"}
    /\ op[w] \in {"resolve", "match"}
    /\ result[w].status # "raised"
    /\ existing_vendors[w] # <<>>

\* the decision: the id of the existing vendor returned, 0 for create new
Decision(w) ==
    IF pc[w] = "done" /\ inserted[w] = <<>> /\ best_match[w] # NoVendor
          /\ result[w].id = best_match[w].id
    THEN best_match[w].id
    ELSE 0

\* C12: two resolution calls with the same candidate name and the same
\* snapshot of known vendors reach the same decision (the same existing
\* vendor id, or create new in both), whatever the judge answers or whether
\* it fails on either call.
C12_SameDecision ==
    \A w \in Workers : \A v \in Workers :
        ( /\ Decided(w) /\ Decided(v)
          /\ vendor_name[w] = vendor_name[v]
          /\ existing_vendors[w] = existing_vendors[v] ) =>
            Decision(w) = Decision(v)

\* C13: starting from an empty vendor store, after any sequence of
\* non-overlapping resolutions the store never holds two vendors with the
\* same name: each distinct name is created at most once.
C13_NoDuplicateNames ==
    \A i \in 1..Len(vendors) : \A j \in 1..Len(vendors) :
        vendors[i].name = vendors[j].name => i = j

\* normalize_vendor_name over the names of the model, computed once
NormalizedName == [n \in Names |-> normalize_vendor_name(Chars(n))]

\* row i of worker w's select has the candidate's normalized form, and that
\* form is not empty
SameNormalized(w, i) ==
    /\ NormalizedName[existing_vendors[w][i].name] = NormalizedName[vendor_name[w]]
    /\ NormalizedName[vendor_name[w]] # <<>>

\* C14: whenever the candidate and a known vendor have identical, non-empty
\* normalized forms, the score of the pair is 100 and the request returns a
\* vendor of that normalized form as a direct match, with no judge call and
\* no insert.
C14_IdenticalNormalizedDirect ==
    \A w \in Workers :
        Found(w) =>
            \A i \in 1..Len(existing_vendors[w]) :
                SameNormalized(w, i) =>
                    /\ RowScore(w, i).num = 100 * RowScore(w, i).den
                    /\ pc[w] = "done"
                    /\ judge_log[w] = <<>>
                    /\ inserted[w] = <<>>
                    /\ best_match[w] # NoVendor
                    /\ NormalizedName[best_match[w].name]
                           = NormalizedName[vendor_name[w]]
                    /\ result[w].id = best_match[w].id

\* C15: the scorer never fails on empty normalized names: when the
\* candidate, a known vendor's name or both normalize to the empty string,
\* a score is returned and the request is not aborted by a division by zero.
C15_ScorerNeverFails ==
    \A w \in Workers :
        \A i \in 1..Len(existing_vendors[w]) :
            ( /\ pc[w] \in {"verify", "insert", "done"}
              /\ \/ NormalizedName[vendor_name[w]] = <<>>
                 \/ NormalizedName[existing_vendors[w][i].name] = <<>> ) =>
                result[w].status # "raised"

\* the name is blank: empty, or made of whitespace only
IsBlank(name) == StrStrip(Chars(name)) = <<>>

\* C16: a blank candidate name (empty or whitespace-only) makes
\* _get_vendor_id fail with an error before the vendor list is read, before
\* any judge call and before any insert, and the request touches neither the
\* vendor table nor the arbitration cache.
C16_BlankNameRejected ==
    \A w \in Workers :
        (op[w] = "resolve" /\ IsBlank(vendor_name[w])) =>
            /\ pc[w] = "done"
            /\ result[w] = [status |-> "raised", id |-> 0, error |-> "ValueError"]
            /\ existing_vendors[w] = <<>>
            /\ judge_log[w] = <<>>
            /\ inserted[w] = <<>>
            /\ cache_reads[w] = 0 /\ cache_writes[w] = 0

\* every stored transaction is a complete record
CompleteRecord(row) ==
    /\ row.vendor_id # 0
    /\ row.category_id # 0
    /\ \E i \in 1..Len(vendors) : vendors[i].id = row.vendor_id
    /\ \E i \in 1..Len(categories) : categories[i].id = row.category_id
    /\ ParsesAsFloat(Chars(row.total_amount))

\* C17: no partial state is left observable: a resolution that fails has
\* inserted no vendor, a store_transaction that fails has handed nothing to
\* storage (no vendor row, no transaction row), and every transaction row
\* that is stored is a complete record.
C17_NoPartialState ==
    /\ \A w \in Workers :
        /\ (pc[w] = "done" /\ result[w].status = "raised") => inserted[w] = <<>>
        /\ (store_pc[w] = "done" /\ store_result[w].status = "raised") =>
               inserted[w] = <<>>
    /\ \A k \in 1..Len(transactions) : CompleteRecord(transactions[k])

\* the required fields a dict lacks, in the order vendor, date, total,
\* sector, currency
LacksFields(data) ==
    SelectSeq(<<"vendor", "date", "total", "sector", "currency">>,
              LAMBDA field : field \notin DOMAIN data)

\* C18: store_transaction called with a payload that lacks any of vendor,
\* date, total, sector, currency fails with an error that lists exactly the
\* missing field names in that fixed order, before any vendor lookup, vendor
\* insert, category lookup or transaction insert.
C18_MissingFieldsRejected ==
    \A w \in Workers :
        (store_pc[w] # "none" /\ LacksFields(transaction_data[w]) # <<>>) =>
            /\ store_pc[w] = "done"
            /\ store_result[w].status = "raised"
            /\ store_result[w].error = "ValueError"
            /\ store_result[w].missing = LacksFields(transaction_data[w])
            /\ pc[w] = "idle" /\ op[w] = "none"
            /\ existing_vendors[w] = <<>>
            /\ inserted[w] = <<>>
            /\ category_queries[w] = <<>>
            /\ store_result[w].vendor_id = 0 /\ store_result[w].category_id = 0

C18_Witness ==
    \E w \in Workers :
        /\ store_pc[w] = "done"
        /\ DOMAIN transaction_data[w] = {"date", "sector", "currency"}
        /\ store_result[w].missing = <<"vendor", "total">>
        /\ vendors # <<>>

\* the rows of the categories table whose name is the given one, letter
\* case aside
NamedIgnoringCase(name) ==
    SelectSeq(categories, LAMBDA row : StrLower(Chars(row.name)) = StrLower(Chars(name)))

\* the category the order exact name, case-insensitive name, 'Uncategorized'
\* gives for a sector: its id, 0 when even 'Uncategorized' is absent
CategoryByName(sector) ==
    LET exact == SelectSeq(categories, LAMBDA row : row.name = sector)
        fixed == SelectSeq(categories, LAMBDA row : row.name = "Uncategorized")
    IN  IF exact # <<>> THEN exact[1].id
        ELSE IF NamedIgnoringCase(sector) # <<>> THEN NamedIgnoringCase(sector)[1].id
        ELSE IF fixed # <<>> THEN fixed[1].id
        ELSE 0

\* C19: category resolution tries an exact name match, then a
\* case-insensitive name match, then the category named 'Uncategorized'; it
\* returns the first id found, fails when even 'Uncategorized' is absent, and
\* leaves the categories table as it was.
C19_CategoryResolution ==
    /\ categories \in CategoryTables
    /\ \A w \in Workers :
        category_queries[w] # <<>> =>
            LET expected == CategoryByName(transaction_data[w]["sector"])
            IN  IF expected = 0
                THEN /\ store_pc[w] = "done"
                     /\ store_result[w].status = "raised"
                     /\ store_result[w].category_id = 0
                ELSE /\ store_result[w].category_id = expected
                     /\ store_pc[w] = "insert" \/ store_pc[w] = "done"

\* C20: normalization is idempotent: normalize_vendor_name applied to a
\* normalized name returns it unchanged, and the empty string normalizes to
\* the empty string.
C20_NormalizeIdempotent ==
    /\ normalizing.applied = 2 => normalizing.twice = normalizing.once
    /\ (normalizing.applied >= 1 /\ normalizing.input = <<>>) =>
           normalizing.once = <<>>

C20_Witness ==
    /\ normalizing.applied = 2
    /\ normalizing.input = <<"R", ".", " ", "o", "R">>
    /\ normalizing.once = <<"r">>
    /\ normalizing.twice = <<"r">>

\* the select of worker w's request returned the one vendor of that name
KnowsOnly(w, name) ==
    /\ Len(existing_vendors[w]) = 1
    /\ existing_vendors[w][1].name = name

\* C21: with the single known vendor 'Talabat Mart' and the candidate
\* 'TALABT TMART' the score lies in the range 65..80, the judge is invoked
\* exactly once with ('TALABT TMART', 'Talabat Mart'), and the request
\* returns the existing vendor when the judge answers true and creates a new
\* vendor when it answers false.
C21_ScenarioC ==
    \A w \in Workers :
        ( /\ op[w] = "resolve" /\ pc[w] = "done"
          /\ vendor_name[w] = TalabtTmart
          /\ KnowsOnly(w, TalabatMart) ) =>
            /\ ScoreAtLeast65(w) /\ ScoreAtMost80(w)
            /\ Len(judge_log[w]) = 1
            /\ judge_log[w][1].new_vendor = TalabtTmart
            /\ judge_log[w][1].existing_vendor = TalabatMart
            /\ IF verify_with_openai(judge_log[w][1].outcome)
               THEN ReturnedBest(w)
               ELSE CreatedNew(w)

\* the words of a name that are no store-type words
CoreWords(name) == WordsOf(Chars(name)) \ store_types

\* C22: for 'Lulu Hypermarket' against 'Lulu Market' both word sets reduce
\* to {lulu} once the store-type words are taken out, the store-variation
\* bonus is awarded, and the final score exceeds 80, so the request returns
\* the known vendor as a direct match.
C22_StoreVariationDirect ==
    \A w \in Workers :
        ( /\ Found(w)
          /\ vendor_name[w] = LuluHypermarket
          /\ KnowsOnly(w, LuluMarket) ) =>
            /\ CoreWords(LuluHypermarket) = {<<"l","u","l","u">>}
            /\ CoreWords(LuluMarket) = {<<"l","u","l","u">>}
            /\ best_match[w] = existing_vendors[w][1]
            /\ ScoreAbove80(w)
            /\ ReturnedBest(w)
            /\ judge_log[w] = <<>>

\* C24: the cache keys are injective on ordered pairs: a verdict cached for
\* one (candidate, existing vendor name) pair is never returned for another
\* pair, so a request decided by a cached true verdict is one whose own pair
\* the judge of that worker has answered true for.
C24_KeysInjective ==
    \A w \in Workers :
        (CacheHit(w) /\ Verdict(w)) =>
            <<vendor_name[w], best_match[w].name>> \in judged_true[w]

\* C23: store_transaction is all-or-nothing with respect to the vendors
\* table: whenever it raises, no vendor row created by that call is in the
\* table.
C23_FailedStoreKeepsVendors ==
    \A w \in Workers :
        (store_pc[w] = "done" /\ store_result[w].status = "raised") =>
            \A k \in 1..Len(inserted[w]) :
                \A i \in 1..Len(vendors) : vendors[i] # inserted[w][k]

\* the words of the normalized names
WordsTable == [name \in Names |-> WordsOf(Chars(name))]

\* the candidate of worker w's request shares no normalized word with any
\* vendor its select returned
SharesNoWord(w) ==
    \A i \in 1..Len(existing_vendors[w]) :
        WordsTable[vendor_name[w]] \cap WordsTable[existing_vendors[w][i].name] = {}

\* C25: when the candidate shares no normalized word with any known vendor,
\* every score is at most 40, the request neither matches nor arbitrates,
\* and _get_vendor_id creates a new vendor.
C25_NoSharedWordCreates ==
    \A w \in Workers :
        ( /\ pc[w] \in {"verify", "insert", "done"}
          /\ existing_vendors[w] # <<>>
          /\ SharesNoWord(w) ) =>
            /\ result[w].status # "raised"
            /\ \A i \in 1..Len(existing_vendors[w]) :
                   RowScore(w, i).num <= 40 * RowScore(w, i).den
            /\ judge_log[w] = <<>>
            /\ cache_reads[w] = 0
            /\ TookNoMatchPath(w)

\* C26: create_transaction with a payload that lacks a required field
\* responds with status 400 and stores nothing: store_transaction is not
\* called, no vendor is looked up or inserted, no transaction is inserted.
C26_MissingFieldsGive400 ==
    \A w \in Workers :
        (http[w].route = "create" /\ LacksFields(http[w].body) # <<>>) =>
            /\ http[w].at = "done"
            /\ http[w].status = 400
            /\ store_pc[w] = "none" /\ pc[w] = "idle"
            /\ existing_vendors[w] = <<>>
            /\ inserted[w] = <<>>

\* C27: get_user_transactions responds with status 403 when the storage
\* call fails with code 42501, with 404 when it fails with code 23503, and
\* with 500 on every other storage error.
C27_ListStatusByFailure ==
    \A w \in Workers :
        (http[w].route = "list" /\ http[w].at = "done") =>
            http[w].status = IF http[w].detail = "42501" THEN 403
                             ELSE IF http[w].detail = "23503" THEN 404
                             ELSE IF http[w].detail = "" THEN 200
                             ELSE 500

\* the table holds a row of that id
HasRow(table, id) == \E i \in 1..Len(table) : table[i].id = id

\* the table holds a row of that id owned by the user
HasOwnedRow(table, id, user) ==
    \E i \in 1..Len(table) : table[i].id = id /\ table[i].user_id = user

\* worker w's request takes the step that ends it
Ends(w) == http[w].at # "done" /\ http'[w].at = "done"

\* C28: a transaction row leaves the table only by the delete of a
\* remove_transaction whose ownership check found that row owned by the
\* current user; a remove_transaction for an id that is unknown or owned by
\* another user deletes nothing and returns the 'not found or already
\* deleted' message.
C28_RemoveOnlyOwned ==
    [][ /\ \A i \in 1..Len(transactions) :
               ~HasRow(transactions', transactions[i].id) =>
                   \E w \in Workers :
                       /\ http[w].route = "remove" /\ Ends(w)
                       /\ http[w].transaction_id = transactions[i].id
                       /\ http[w].user = transactions[i].user_id
                       /\ HasOwnedRow(http[w].current, transactions[i].id,
                                      http[w].user)
        /\ \A w \in Workers :
               ( /\ http[w].route = "none" /\ http'[w].route = "remove"
                 /\ ~HasOwnedRow(transactions, http'[w].transaction_id,
                                 http'[w].user) ) =>
                   /\ http'[w].at = "done"
                   /\ http'[w].status = 200
                   /\ http'[w].detail = "Transaction not found or already deleted"
                   /\ transactions' = transactions ]_vars

C28_Witness ==
    \E w \in Workers :
        /\ http[w].route = "remove" /\ http[w].at = "done"
        /\ http[w].user = "u1" /\ http[w].transaction_id = 2
        /\ http[w].detail = "Transaction not found or already deleted"
        /\ ~HasRow(transactions, 2)
        /\ HasOwnedRow(transactions, 1, "u2")

\* the columns in which the two rows differ
ChangedColumns(old, new) == {column \in DOMAIN old : old[column] # new[column]}

\* the field is in the request and not null
Requested(body, field) ==
    /\ field \in DOMAIN body
    /\ field \in {"vendor_id", "category_id"} \/ body[field] # NoValue

\* a row of the table changes in this step only by the update of an
\* update_transaction of its owner for its id, and only in columns that
\* satisfy MayChange(w, column, new)
RowsChangeOnlyBy(MayChange(_, _, _)) ==
    \A i \in 1..Len(transactions) : \A j \in 1..Len(transactions') :
        ( /\ transactions'[j].id = transactions[i].id
          /\ transactions'[j] # transactions[i] ) =>
            \E w \in Workers :
                /\ http[w].route = "update" /\ Ends(w)
                /\ http[w].transaction_id = transactions[i].id
                /\ http[w].user = transactions[i].user_id
                /\ \A column \in ChangedColumns(transactions[i], transactions'[j]) :
                       /\ column \in {"vendor_id", "date", "currency",
                                      "category_id", "total_amount"}
                       /\ MayChange(w, column, transactions'[j])

\* an update_transaction for a transaction the caller does not own responds
\* 404 and updates nothing
NotOwnedGives404 ==
    \A w \in Workers :
        ( /\ http[w].route = "none" /\ http'[w].route = "update"
          /\ ~HasOwnedRow(transactions, http'[w].transaction_id, http'[w].user) ) =>
            /\ http'[w].at = "done"
            /\ http'[w].status = 404
            /\ transactions' = transactions

\* C29: update_transaction changes only the columns vendor_id, date,
\* currency, category_id and total_amount of the one transaction owned by
\* the current user, and only those present and non-null in the request;
\* user_id, raw_data, receipt_url and created_at stay as they are, and for a
\* transaction the caller does not own it responds 404 and updates nothing.
C29_UpdateOnlyRequested ==
    [][ /\ RowsChangeOnlyBy(LAMBDA w, column, new : Requested(http[w].body, column))
        /\ NotOwnedGives404 ]_vars

\* C29, amended: as above, and vendor_id changes also when the request
\* carries a non-null vendor name that match_vendor matched, to the id of
\* the matched vendor.
C29_UpdateRequestedOrMatched ==
    [][ /\ RowsChangeOnlyBy(
               LAMBDA w, column, new :
                   \/ Requested(http[w].body, column)
                   \/ /\ column = "vendor_id"
                      /\ Requested(http[w].body, "vendor")
                      /\ result[w].status = "returned"
                      /\ result[w].id # 0
                      /\ new.vendor_id = result[w].id)
        /\ NotOwnedGives404 ]_vars

C29_Witness ==
    \E w \in Workers : \E i \in 1..Len(transactions) :
        /\ http[w].route = "update" /\ http[w].at = "done"
        /\ http[w].status = 200
        /\ http[w].body = With(With(NoData, "total_amount", "9.99"), "user_id", "u2")
        /\ http[w].user = "u1"
        /\ transactions[i].id = http[w].transaction_id
        /\ transactions[i].total_amount = "9.99"
        /\ transactions[i].user_id = "u1"
        /\ transactions[i].date = "2024-01-31"

====
